---------------------------- MODULE Spec2Model ----------------------------
(***************************************************************************)
(* A model of src/src/chatfactory/bot/chat_with_arxiv.py: ArxivChatBot,   *)
(* its construction and its chat pipeline over two collaborators, the     *)
(* language-model backend (invoke / invoke_stream) and the arXiv search   *)
(* tool (call).                                                           *)
(*                                                                         *)
(* Text is a sequence of atoms.  An atom is a piece of text that the code *)
(* never looks inside: a template literal, a field value, a JSON token.   *)
(* String concatenation is \o and the empty string is << >>.              *)
(***************************************************************************)
EXTENDS Integers, Sequences, FiniteSets, TLC

(***************************************************************************)
(* Bounds of the model.                                                    *)
(***************************************************************************)
MaxHist == 2
MaxPapers == 2
MaxCalls == 2

(***************************************************************************)
(* The state.                                                              *)
(***************************************************************************)
VARIABLES
    pc,             \* where the bot is: construction, idle, a stage of chat
    registry,       \* the keys of LLM_REGISTRY
    llm_config,     \* the constructor's argument
    ctor,           \* __init__'s locals: llm_engine, model, model_config
    self,           \* the bot's attributes (its __dict__)
    built,          \* self as __init__ left it
    events,         \* the registry lookups and constructor calls made so far
    caller,         \* the caller's two history lists (passed by reference)
    args,           \* chat's arguments as they were at the call
    loc,            \* chat's locals
    trace,          \* the collaborator calls of the current chat call
    result,         \* what the current chat call returned or raised
    deterministic,  \* whether the collaborators are functions of their inputs
    llmMemo,        \* what a deterministic backend answered to each request
    toolMemo,       \* what a deterministic tool answered to each request
    log,            \* the finished chat calls (kept for deterministic collaborators)
    bx,             \* a direct call of _chat: its arguments and its request
    fx              \* a direct call of the two formatters on a tool result

vars == << pc, registry, llm_config, ctor, self, built, events, caller, args, loc,
           trace, result, deterministic, llmMemo, toolMemo, log, bx, fx >>

botVars == << pc, registry, llm_config, ctor, self, built, events, caller, args, loc,
              trace, result, deterministic, llmMemo, toolMemo, log >>

(***************************************************************************)
(* Python values.                                                          *)
(***************************************************************************)
None == [none |-> TRUE]
Some(x) == [none |-> FALSE, v |-> x]

\* Truthiness of an Optional[str]: None and "" are falsy (`if system_prompt:`).
TruthyOptText(o) == (~o.none) /\ Len(o.v) > 0

PStr(s) == [t |-> "str", s |-> s]
PArr(items) == [t |-> "arr", items |-> items]
PObj(keys, vals) == [t |-> "obj", keys |-> keys, vals |-> vals]
PNull == [t |-> "null"]

(***************************************************************************)
(* The templates (lines 7-53).  The prompts are opaque to the code, so    *)
(* each is one atom; the templates with placeholders are split at the     *)
(* placeholders.                                                           *)
(***************************************************************************)
ARXIV_SYSTEM_PROMPT == << "ARXIV_SYSTEM_PROMPT: you are skilled at recommending academic papers" >>

ARXIV_SEARCH_PROMPT == << "ARXIV_SEARCH_PROMPT: extract research_field, authors, search_order as JSON" >>

ARXIV_CHAT_TEMPLATE(content, message) ==
    << "Answer from the arXiv candidates, do not invent; if the candidate set is empty remind me to check the arXiv service.\n\narXiv candidates:\n\n" >>
    \o content \o << "\n\nQuestion:\n\n" >> \o message \o << "\n" >>

PAPER_CARD_TEMPLATE(index, title, pdf_url, authors, abstract) ==
    << "\n### [" >> \o index \o << ". " >> \o title \o << "](" >> \o pdf_url
    \o << ")\n\n**Authors:** " >> \o authors
    \o << "\n\n**Abstract:** " >> \o abstract \o << "\n\n" >>

PAPER_CARD_MARKDOWN(content) ==
    << "\n<div style=\"flex: 1; overflow-y: auto;\">\n" >> \o content \o << "\n</div>\n" >>

(***************************************************************************)
(* str(int) as str.format renders {index}: decimal digits.                 *)
(***************************************************************************)
Digit == << "0", "1", "2", "3", "4", "5", "6", "7", "8", "9" >>

RECURSIVE IntText(_)
IntText(n) ==
    IF n < 10 THEN << Digit[n + 1] >>
    ELSE IntText(n \div 10) \o << Digit[(n % 10) + 1] >>

(***************************************************************************)
(* JSON.  A JSON text is a sequence of tokens; a string literal is the    *)
(* three tokens  "  content  "  (two for the empty string).                *)
(***************************************************************************)
Quote == "\""
JsonPunct == { "[", "]", "{", "}", ",", ":", Quote, "null" }

RECURSIVE SerValue(_)
RECURSIVE SerItems(_)
RECURSIVE SerPairs(_, _)
SerItems(items) ==
    IF Len(items) = 0 THEN << >>
    ELSE IF Len(items) = 1 THEN SerValue(items[1])
    ELSE SerValue(items[1]) \o << "," >> \o SerItems(Tail(items))

SerPairs(keys, vals) ==
    IF Len(keys) = 0 THEN << >>
    ELSE << Quote, keys[1], Quote, ":" >> \o SerValue(vals[1])
         \o (IF Len(keys) = 1 THEN << >>
             ELSE << "," >> \o SerPairs(Tail(keys), Tail(vals)))

\* json.dumps, as the search tool serializes its list of records.
SerValue(v) ==
    CASE v.t = "str" -> << Quote, v.s, Quote >>
      [] v.t = "arr" -> << "[" >> \o SerItems(v.items) \o << "]" >>
      [] v.t = "obj" -> << "{" >> \o SerPairs(v.keys, v.vals) \o << "}" >>
      [] OTHER -> << "null" >>

Fail == [ok |-> FALSE]
Parsed(v, n) == [ok |-> TRUE, val |-> v, next |-> n]

RECURSIVE ParseValue(_, _)
RECURSIVE ParseItems(_, _, _)
RECURSIVE ParsePairs(_, _, _, _)

\* The elements of an array after "[", `acc` being those read so far; i is
\* the place of the next element.
ParseItems(t, i, acc) ==
    LET e == ParseValue(t, i) IN
    IF ~e.ok THEN Fail
    ELSE IF e.next > Len(t) THEN Fail
    ELSE IF t[e.next] = "]" THEN Parsed(PArr(Append(acc, e.val)), e.next + 1)
    ELSE IF t[e.next] = "," THEN ParseItems(t, e.next + 1, Append(acc, e.val))
    ELSE Fail

\* The members of an object after "{": "key" : value , ...
ParsePairs(t, i, keys, vals) ==
    IF i + 3 > Len(t) THEN Fail
    ELSE IF t[i] # Quote \/ t[i + 1] \in JsonPunct \/ t[i + 2] # Quote \/ t[i + 3] # ":"
    THEN Fail
    ELSE LET e == ParseValue(t, i + 4) IN
         IF ~e.ok THEN Fail
         ELSE IF e.next > Len(t) THEN Fail
         ELSE IF t[e.next] = "}"
         THEN Parsed(PObj(Append(keys, t[i + 1]), Append(vals, e.val)), e.next + 1)
         ELSE IF t[e.next] = ","
         THEN ParsePairs(t, e.next + 1, Append(keys, t[i + 1]), Append(vals, e.val))
         ELSE Fail

ParseValue(t, i) ==
    IF i > Len(t) THEN Fail
    ELSE IF t[i] = "null" THEN Parsed(PNull, i + 1)
    ELSE IF t[i] = Quote
    THEN IF i + 1 <= Len(t) /\ t[i + 1] = Quote THEN Parsed(PStr(""), i + 2)
         ELSE IF i + 2 <= Len(t) /\ t[i + 1] \notin JsonPunct /\ t[i + 2] = Quote
         THEN Parsed(PStr(t[i + 1]), i + 3)
         ELSE Fail
    ELSE IF t[i] = "["
    THEN IF i + 1 <= Len(t) /\ t[i + 1] = "]" THEN Parsed(PArr(<< >>), i + 2)
         ELSE ParseItems(t, i + 1, << >>)
    ELSE IF t[i] = "{"
    THEN IF i + 1 <= Len(t) /\ t[i + 1] = "}" THEN Parsed(PObj(<< >>, << >>), i + 2)
         ELSE ParsePairs(t, i + 1, << >>, << >>)
    ELSE Fail

\* json.loads: the whole text is one value, else JSONDecodeError.
json_loads(text) ==
    LET e == ParseValue(text, 1) IN
    IF e.ok /\ e.next = Len(text) + 1 THEN [ok |-> TRUE, val |-> e.val]
    ELSE [ok |-> FALSE, err |-> "JSONDecodeError"]

(***************************************************************************)
(* What the search tool hands back (`papers: Any`): None, a text, or a    *)
(* Python list.  `not papers` is Python truthiness.                        *)
(***************************************************************************)
PyNone == [kind |-> "none"]
PyText(text) == [kind |-> "text", text |-> text]
PyList(items) == [kind |-> "list", items |-> items]

Truthy(papers) ==
    CASE papers.kind = "none" -> FALSE
      [] papers.kind = "text" -> Len(papers.text) > 0
      [] OTHER -> Len(papers.items) > 0

Ok(v) == [ok |-> TRUE, v |-> v]
Raise(e) == [ok |-> FALSE, err |-> e]

\* json.loads(papers) of lines 153 and 169: a str is parsed, anything else
\* is a TypeError.
LoadPapers(papers) ==
    IF papers.kind # "text" THEN Raise("TypeError")
    ELSE LET r == json_loads(papers.text) IN
         IF r.ok THEN Ok(r.val) ELSE Raise(r.err)

\* Iterating a deserialized value (`for paper in papers`): a list gives its
\* items, a dict its keys, a str its characters (an atom iterates as one
\* character), None is not iterable.
Iterate(v) ==
    CASE v.t = "arr" -> Ok(v.items)
      [] v.t = "obj" -> Ok([k \in 1..Len(v.keys) |-> PStr(v.keys[k])])
      [] v.t = "str" -> Ok(IF v.s = "" THEN << >> ELSE << PStr(v.s) >>)
      [] OTHER -> Raise("TypeError")

\* paper[key]: a dict gives the value of the last member named key, or
\* KeyError; subscripting anything else with a str is a TypeError.
Subscript(v, key) ==
    IF v.t # "obj" THEN Raise("TypeError")
    ELSE LET at == {k \in 1..Len(v.keys) : v.keys[k] = key} IN
         IF at = {} THEN Raise("KeyError")
         ELSE Ok(v.vals[CHOOSE k \in at : \A j \in at : j <= k])

RECURSIVE JoinTexts(_, _)
JoinTexts(sep, texts) ==
    IF Len(texts) = 0 THEN << >>
    ELSE IF Len(texts) = 1 THEN texts[1]
    ELSE texts[1] \o sep \o JoinTexts(sep, Tail(texts))

\* ", ".join(paper["authors"]): every element must be a str.
JoinAuthors(v) ==
    LET it == Iterate(v) IN
    IF ~it.ok THEN it
    ELSE IF \E k \in 1..Len(it.v) : it.v[k].t # "str" THEN Raise("TypeError")
    ELSE Ok(JoinTexts(<< ", " >>,
                      [k \in 1..Len(it.v) |->
                          IF it.v[k].s = "" THEN << >> ELSE << it.v[k].s >>]))

\* str(value), as str.format renders a field: a str is itself; the other
\* values render as their Python repr.
RECURSIVE FormatValue(_)
FormatValue(v) ==
    CASE v.t = "str" -> (IF v.s = "" THEN << >> ELSE << v.s >>)
      [] v.t = "null" -> << "None" >>
      [] v.t = "arr" ->
            << "[" >>
            \o JoinTexts(<< ", " >>,
                   [k \in 1..Len(v.items) |->
                       IF v.items[k].t = "str"
                       THEN << "'" >> \o FormatValue(v.items[k]) \o << "'" >>
                       ELSE FormatValue(v.items[k])])
            \o << "]" >>
      [] OTHER ->
            << "{" >>
            \o JoinTexts(<< ", " >>,
                   [k \in 1..Len(v.keys) |->
                       << "'", v.keys[k], "'", ": " >>
                       \o (IF v.vals[k].t = "str"
                           THEN << "'" >> \o FormatValue(v.vals[k]) \o << "'" >>
                           ELSE FormatValue(v.vals[k]))])
            \o << "}" >>

\* PaperCard numbering the cards as enumerate counts, from 0.
PaperCard_ZeroBased(index, paper) ==
    LET title == Subscript(paper, "title")
        authors == Subscript(paper, "authors")
        joined == IF authors.ok THEN JoinAuthors(authors.v) ELSE authors
        summary == Subscript(paper, "summary")
        pdf_url == Subscript(paper, "pdf_url")
    IN  IF ~title.ok THEN title
        ELSE IF ~joined.ok THEN joined
        ELSE IF ~summary.ok THEN summary
        ELSE IF ~pdf_url.ok THEN pdf_url
        ELSE Ok(PAPER_CARD_TEMPLATE(IntText(index), FormatValue(title.v),
                                    FormatValue(pdf_url.v), joined.v,
                                    FormatValue(summary.v)))

\* Lines 156-162: one card.  The keyword arguments are evaluated in the
\* order written: title, authors, summary, pdf_url.
PaperCard(index, paper) ==
    LET title == Subscript(paper, "title")
        authors == Subscript(paper, "authors")
        joined == IF authors.ok THEN JoinAuthors(authors.v) ELSE authors
        summary == Subscript(paper, "summary")
        pdf_url == Subscript(paper, "pdf_url")
    IN  IF ~title.ok THEN title
        ELSE IF ~joined.ok THEN joined
        ELSE IF ~summary.ok THEN summary
        ELSE IF ~pdf_url.ok THEN pdf_url
        ELSE Ok(PAPER_CARD_TEMPLATE(IntText(index + 1), FormatValue(title.v),
                                    FormatValue(pdf_url.v), joined.v,
                                    FormatValue(summary.v)))

\* Lines 154-162: the loop over enumerate(papers), index counting from 0.
RECURSIVE PaperCardsLoop(_, _, _)
PaperCardsLoop(items, index, paper_cards) ==
    IF index >= Len(items) THEN Ok(paper_cards)
    ELSE LET card == PaperCard(index, items[index + 1]) IN
         IF ~card.ok THEN card
         ELSE PaperCardsLoop(items, index + 1, paper_cards \o card.v)

\* _generate_paper_cards catching what deserializing and formatting raise and
\* falling back to no cards.
_generate_paper_cards_Fallback(papers) ==
    IF ~Truthy(papers) THEN Ok(<< >>)
    ELSE LET loaded == LoadPapers(papers) IN
         IF ~loaded.ok THEN Ok(<< >>)
         ELSE LET it == Iterate(loaded.v) IN
              IF ~it.ok THEN Ok(<< >>)
              ELSE LET cards == PaperCardsLoop(it.v, 0, << >>) IN
                   IF ~cards.ok THEN Ok(<< >>)
                   ELSE Ok(PAPER_CARD_MARKDOWN(cards.v))

\* Lines 150-164.
_generate_paper_cards(papers) ==
    IF ~Truthy(papers) THEN Ok(<< >>)
    ELSE LET loaded == LoadPapers(papers) IN
         IF ~loaded.ok THEN loaded
         ELSE LET it == Iterate(loaded.v) IN
              IF ~it.ok THEN it
              ELSE LET cards == PaperCardsLoop(it.v, 0, << >>) IN
                   IF ~cards.ok THEN cards
                   ELSE Ok(PAPER_CARD_MARKDOWN(cards.v))

\* Lines 172-174: the three labelled lines of one paper.
GroundingBlock(paper) ==
    LET title == Subscript(paper, "title")
        authors == Subscript(paper, "authors")
        joined == IF authors.ok THEN JoinAuthors(authors.v) ELSE authors
        summary == Subscript(paper, "summary")
    IN  IF ~title.ok THEN title
        ELSE IF ~joined.ok THEN joined
        ELSE IF ~summary.ok THEN summary
        ELSE Ok(<< "Title: " >> \o FormatValue(title.v) \o << "\n" >>
                \o << "Authors: " >> \o joined.v \o << "\n" >>
                \o << "Abstract: " >> \o FormatValue(summary.v) \o << "\n\n" >>)

RECURSIVE GroundingLoop(_, _)
GroundingLoop(items, content) ==
    IF Len(items) = 0 THEN Ok(content)
    ELSE LET block == GroundingBlock(Head(items)) IN
         IF ~block.ok THEN block
         ELSE GroundingLoop(Tail(items), content \o block.v)

\* _prepare_message_for_llm without the early return: an empty value fills
\* the template with no content.
_prepare_message_for_llm_AlwaysTemplate(message, papers) ==
    IF ~Truthy(papers) THEN Ok(ARXIV_CHAT_TEMPLATE(<< >>, message))
    ELSE LET loaded == LoadPapers(papers) IN
         IF ~loaded.ok THEN loaded
         ELSE LET it == Iterate(loaded.v) IN
              IF ~it.ok THEN it
              ELSE LET content == GroundingLoop(it.v, << >>) IN
                   IF ~content.ok THEN content
                   ELSE Ok(ARXIV_CHAT_TEMPLATE(content.v, message))

\* Lines 166-177.
_prepare_message_for_llm(message, papers) ==
    IF ~Truthy(papers) THEN Ok(message)
    ELSE LET loaded == LoadPapers(papers) IN
         IF ~loaded.ok THEN loaded
         ELSE LET it == Iterate(loaded.v) IN
              IF ~it.ok THEN it
              ELSE LET content == GroundingLoop(it.v, << >>) IN
                   IF ~content.ok THEN content
                   ELSE Ok(ARXIV_CHAT_TEMPLATE(content.v, message))

(***************************************************************************)
(* _chat (lines 105-125).                                                  *)
(***************************************************************************)
Msg(role, content) == [role |-> role, content |-> content]

\* Lines 116-119: each (query, response) of the history, in order.
RECURSIVE HistoryMessages(_)
HistoryMessages(history) ==
    IF Len(history) = 0 THEN << >>
    ELSE << Msg("user", Head(history)[1]), Msg("assistant", Head(history)[2]) >>
         \o HistoryMessages(Tail(history))

\* _chat_messages testing `system_prompt is not None`, so that an empty
\* system prompt is sent too.
_chat_messages_NotNone(message, history, system_prompt) ==
    (IF ~system_prompt.none THEN << Msg("system", system_prompt.v) >> ELSE << >>)
    \o HistoryMessages(history)
    \o << Msg("user", message) >>

\* _chat_messages on a list that outlives the call (an attribute, a mutable
\* default): the messages of the call before are still in it.
_chat_messages_Kept(message, history, system_prompt) ==
    (IF Len(log) > 0 THEN log[Len(log)].trace[1].messages ELSE << >>)
    \o (IF TruthyOptText(system_prompt) THEN << Msg("system", system_prompt.v) >> ELSE << >>)
    \o HistoryMessages(history)
    \o << Msg("user", message) >>

\* Lines 113-120: the messages list _chat builds.
_chat_messages(message, history, system_prompt) ==
    (IF TruthyOptText(system_prompt) THEN << Msg("system", system_prompt.v) >> ELSE << >>)
    \o HistoryMessages(history)
    \o << Msg("user", message) >>

\* Lines 121-124: which operation of the backend _chat calls.
_chat_invoke(stream) == IF stream THEN "invoke_stream" ELSE "invoke"

\* _chat keeping the messages it built on the bot.
_chat_KeepsMessages(bot, message, history, system_prompt, generation_config, stream) ==
    [request |-> [op |-> _chat_invoke(stream),
                  messages |-> _chat_messages(message, history, system_prompt),
                  generation_config |-> generation_config],
     self |-> ("messages" :> _chat_messages(message, history, system_prompt)) @@ bot,
     history |-> history]

\* Lines 113-124: what _chat does up to the backend's reply: the request it
\* sends, and the two objects it holds references to, self and the caller's
\* history list, as it leaves them (it assigns no attribute of self, and
\* `messages` is a fresh list, so the history is only read).
_chat(bot, message, history, system_prompt, generation_config, stream) ==
    [request |-> [op |-> _chat_invoke(stream),
                  messages |-> _chat_messages(message, history, system_prompt),
                  generation_config |-> generation_config],
     self |-> bot,
     history |-> history]

(***************************************************************************)
(* The calls chat and _search_from_arxiv make, with the arguments they    *)
(* pass.                                                                   *)
(***************************************************************************)
\* chat handing history_chat to the search.
chat_search_call_ChatHistory(message, history_chat, history_search, generation_config, max_results) ==
    [message |-> message, history |-> history_chat,
     generation_config |-> generation_config, max_results |-> max_results]

\* Lines 136-138: chat -> _search_from_arxiv(message, history_search,
\* generation_config, max_results).
chat_search_call(message, history_chat, history_search, generation_config, max_results) ==
    [message |-> message, history |-> history_search,
     generation_config |-> generation_config, max_results |-> max_results]

\* _search_from_arxiv leaving stream to _chat's default, True.
search_chat_call_DefaultStream(message, history, generation_config) ==
    [message |-> message, history |-> history,
     system_prompt |-> Some(ARXIV_SEARCH_PROMPT),
     generation_config |-> generation_config, stream |-> TRUE]

\* Lines 95-101: _search_from_arxiv -> _chat.
search_chat_call(message, history, generation_config) ==
    [message |-> message, history |-> history,
     system_prompt |-> Some(ARXIV_SEARCH_PROMPT),
     generation_config |-> generation_config, stream |-> FALSE]

\* The tool called without max_results, which leaves it at 5.
tool_call_DefaultMax(response, max_results) ==
    [op |-> "call", text |-> response, max_results |-> 5]

\* Line 102: self.tool.call(response, max_results=max_results).
tool_call(response, max_results) ==
    [op |-> "call", text |-> response, max_results |-> max_results]

\* Lines 141-147: chat -> _chat for the answer.
chat_answer_call(messaeg_for_llm, history_chat, history_search, generation_config, stream) ==
    [message |-> messaeg_for_llm, history |-> history_chat,
     system_prompt |-> Some(ARXIV_SYSTEM_PROMPT),
     generation_config |-> generation_config, stream |-> stream]

(***************************************************************************)
(* Construction (lines 57-86).                                             *)
(***************************************************************************)
\* dict.get(key, None)
DictGet(d, key) == IF key \in DOMAIN d THEN Some(d[key]) ELSE None

\* Lines 62-70.
parse_llm_config(config) ==
    LET d == IF config.none THEN << >> ELSE config.v IN
    [llm_engine |-> DictGet(d, "engine"),
     model |-> DictGet(d, "model"),
     model_config |-> DictGet(d, "model_config")]

\* Lines 79-80.
DefaultEngine == "openai"
ResolveEngine(llm_engine) == IF llm_engine.none THEN DefaultEngine ELSE llm_engine.v

\* A lookup that falls back to the default engine's class.
LookupLlm_Fallback(llm_registry, llm_engine) ==
    IF llm_engine \in llm_registry THEN Ok(llm_engine) ELSE Ok("openai")

\* Line 81: LLM_REGISTRY[llm_engine], a KeyError when the key is absent.
LookupLlm(llm_registry, llm_engine) ==
    IF llm_engine \in llm_registry THEN Ok(llm_engine) ELSE Raise("KeyError")

\* Line 82: self.llm = llm_cls(model, model_config).
SetLlm(bot, llm_cls, model, model_config) ==
    ("llm" :> [cls |-> llm_cls, model |-> model, model_config |-> model_config]) @@ bot

\* Line 60: self.tool = TOOL_REGISTRY["arxiv"]().
SetTool(bot) == ("tool" :> [cls |-> "arxiv", model |-> None, model_config |-> None]) @@ bot

(***************************************************************************)
(* The inputs the model draws from.                                        *)
(***************************************************************************)
Messages == { << "recommend papers on graph neural networks" >>, << "latest by A1" >> }

\* Prior turns; the two histories of a chat call draw on different turns.
ChatTurns == << << << "cq1" >>, << "ca1" >> >>, << << "cq2" >>, << "ca2" >> >>,
               << << "cq3" >>, << "ca3" >> >>, << << "cq4" >>, << "ca4" >> >> >>
SearchTurns == << << << "sq1" >>, << "sa1" >> >>, << << "sq2" >>, << "sa2" >> >>,
                 << << "sq3" >>, << "sa3" >> >>, << << "sq4" >>, << "sa4" >> >> >>

Min(a, b) == IF a < b THEN a ELSE b
Prefixes(seq, n) == { SubSeq(seq, 1, k) : k \in 0..Min(n, Len(seq)) }

RECURSIVE SeqsUpTo(_, _)
SeqsUpTo(S, n) ==
    IF n = 0 THEN { << >> }
    ELSE LET shorter == SeqsUpTo(S, n - 1) IN
         shorter \cup { Append(q, x) : q \in shorter, x \in S }

GenerationConfigs == { None, Some("temperature=0") }

\* Line 133: max_results: int = 5.
DefaultMaxResults == 5
MaxResultsChoices == { DefaultMaxResults, 2 }

LlmConfigs ==
    { None, Some(<< >>),
      Some("engine" :> "hf" @@ "model" :> "m1"),
      Some("engine" :> "bogus" @@ "model_config" :> "cfg") }

Registries == { {"openai", "hf"}, {"hf"} }

\* Paper records as the tool contract gives them.
PaperPool ==
    << [title |-> "T1", authors |-> << "A1", "A2" >>, summary |-> "S1", pdf_url |-> "U1"],
       [title |-> "T2", authors |-> << "A3" >>, summary |-> "S2", pdf_url |-> "U2"],
       [title |-> "T3", authors |-> << >>, summary |-> "S3", pdf_url |-> "U3"],
       [title |-> "T1", authors |-> << "A2", "A1" >>, summary |-> "S4", pdf_url |-> "U4"] >>

PaperFields == << "title", "authors", "summary", "pdf_url" >>

\* A record as the deserialized dict it is.
PaperObj(p) ==
    PObj(PaperFields,
         << PStr(p.title), PArr([k \in 1..Len(p.authors) |-> PStr(p.authors[k])]),
            PStr(p.summary), PStr(p.pdf_url) >>)

\* The dict without member `key`.
WithoutKey(obj, key) ==
    LET keep == { k \in 1..Len(obj.keys) : obj.keys[k] # key }
        RECURSIVE Pick(_, _)
        Pick(seq, k) ==
            IF k > Len(seq) THEN << >>
            ELSE (IF k \in keep THEN << seq[k] >> ELSE << >>) \o Pick(seq, k + 1)
    IN  PObj(Pick(obj.keys, 1), Pick(obj.vals, 1))

\* The tool's serialization of a sequence of records.
SerializePapers(P) == PyText(SerValue(PArr([k \in 1..Len(P) |-> PaperObj(P[k])])))

\* What the search tool may return during chat.
ToolReturns ==
    { PyNone, PyText(<< >>), PyList(<< >>), PyText(<< "null" >>), PyText(<< "[", "{" >>) }
    \cup { SerializePapers(P) : P \in Prefixes(PaperPool, MaxPapers) }
    \cup { PyText(SerValue(PArr(<< PaperObj(PaperPool[1]),
                                   WithoutKey(PaperObj(PaperPool[2]), PaperFields[k]) >>)))
           : k \in 1..Len(PaperFields) }

\* What the backend may reply: any text; the code never looks inside.
LlmReplies == { << "{\"research_field\": [\"gnn\"], \"authors\": [], \"search_order\": \"Latest\"}" >>,
                << "free text, not JSON" >> }

Outcome(raised, v) == [raised |-> raised, v |-> v]
LlmOutcomeSpace == { Outcome(FALSE, r) : r \in LlmReplies } \cup { Outcome(TRUE, << >>) }
ToolOutcomeSpace == { Outcome(FALSE, r) : r \in ToolReturns } \cup { Outcome(TRUE, PyNone) }

NoAttributes == [a \in {} |-> None]
NoCtor == [llm_engine |-> None, model |-> None, model_config |-> None]
NoCaller == [history_chat |-> << >>, history_search |-> << >>]
NoArgs == [message |-> << >>, history_chat |-> << >>, history_search |-> << >>,
           generation_config |-> None, max_results |-> DefaultMaxResults, stream |-> TRUE]
NoLoc == [response |-> << >>, papers |-> PyNone, paper_cards |-> << >>,
          messaeg_for_llm |-> << >>]
NoResult == [status |-> "none", value |-> << >>, err |-> "", stage |-> ""]
NoBx == [stage |-> "off"]
NoFx == [stage |-> "off"]

Returned(value) == [status |-> "returned", value |-> value, err |-> "", stage |-> ""]
Raised(err, stage) == [status |-> "raised", value |-> << >>, err |-> err, stage |-> stage]

BotInit(det, registries, configs) ==
    /\ pc = "new"
    /\ registry \in registries
    /\ llm_config \in configs
    /\ ctor = NoCtor
    /\ self = NoAttributes
    /\ built = NoAttributes
    /\ events = << >>
    /\ caller = NoCaller
    /\ args = NoArgs
    /\ loc = NoLoc
    /\ trace = << >>
    /\ result = NoResult
    /\ deterministic = det
    /\ llmMemo = {}
    /\ toolMemo = {}
    /\ log = << >>

Init ==
    /\ BotInit(FALSE, Registries, LlmConfigs)
    /\ bx = NoBx
    /\ fx = NoFx

(***************************************************************************)
(* Construction.                                                           *)
(***************************************************************************)
\* Line 58.
ParseConfig ==
    /\ pc = "new"
    /\ ctor' = parse_llm_config(llm_config)
    /\ pc' = "setup_model"
    /\ UNCHANGED << registry, llm_config, self, built, events, caller, args, loc,
                    trace, result, deterministic, llmMemo, toolMemo, log, bx, fx >>

\* Lines 79-81: the engine is resolved and looked up; an unknown engine
\* raises out of __init__.
SetupModelLookup ==
    /\ pc = "setup_model"
    /\ LET llm_cls == LookupLlm(registry, ResolveEngine(ctor.llm_engine)) IN
       /\ events' = events \o << "LLM_REGISTRY[]" >>
                     \o (IF llm_cls.ok THEN << >> ELSE << llm_cls.err >>)
       /\ pc' = IF llm_cls.ok THEN "llm_cls" ELSE "init_raised"
    /\ UNCHANGED << registry, llm_config, ctor, self, built, caller, args, loc,
                    trace, result, deterministic, llmMemo, toolMemo, log, bx, fx >>

\* Lines 82-86: the backend is constructed (its constructor may raise).
SetupModelConstruct ==
    /\ pc = "llm_cls"
    /\ events' = Append(events, "llm_cls()")
    /\ \E raised \in BOOLEAN :
          IF raised
          THEN /\ pc' = "init_raised"
               /\ self' = self
          ELSE /\ pc' = "tool"
               /\ self' = SetLlm(self, ResolveEngine(ctor.llm_engine), ctor.model,
                                 ctor.model_config)
    /\ UNCHANGED << registry, llm_config, ctor, built, caller, args, loc,
                    trace, result, deterministic, llmMemo, toolMemo, log, bx, fx >>

\* Line 60: the tool is looked up and constructed (its constructor may raise).
SetupTool ==
    /\ pc = "tool"
    /\ events' = events \o << "TOOL_REGISTRY[]", "tool_cls()" >>
    /\ \E raised \in BOOLEAN :
          IF raised
          THEN /\ pc' = "init_raised"
               /\ UNCHANGED << self, built >>
          ELSE /\ pc' = "idle"
               /\ self' = SetTool(self)
               /\ built' = SetTool(self)
    /\ UNCHANGED << registry, llm_config, ctor, caller, args, loc,
                    trace, result, deterministic, llmMemo, toolMemo, log, bx, fx >>

(***************************************************************************)
(* The collaborators.                                                      *)
(***************************************************************************)
Answers(memo, request, space) ==
    LET known == { e.out : e \in { m \in memo : m.k = request } } IN
    IF deterministic /\ known # {} THEN known ELSE space

Remember(memo, request, out) ==
    IF deterministic THEN memo \cup { [k |-> request, out |-> out] } ELSE memo

(***************************************************************************)
(* chat (lines 127-148).                                                   *)
(***************************************************************************)
ChatArgs ==
    [message : Messages,
     history_chat : Prefixes(ChatTurns, MaxHist),
     history_search : Prefixes(SearchTurns, MaxHist),
     generation_config : GenerationConfigs,
     max_results : MaxResultsChoices,
     stream : BOOLEAN]

\* The arguments of the runs that repeat a call.
RepeatedChatArgs ==
    { a \in ChatArgs : a.generation_config = None /\ a.max_results = DefaultMaxResults }

\* The caller calls chat.  Against deterministic collaborators the caller
\* repeats its first call, at most MaxCalls times.
CallChat ==
    /\ pc = "idle"
    /\ deterministic => Len(log) < MaxCalls
    /\ \E a \in IF deterministic THEN RepeatedChatArgs ELSE ChatArgs :
          /\ (deterministic /\ Len(log) > 0) => a = log[1].args
          /\ args' = a
          /\ caller' = [history_chat |-> a.history_chat,
                        history_search |-> a.history_search]
    /\ loc' = NoLoc
    /\ trace' = << >>
    /\ result' = NoResult
    /\ pc' = "search"
    /\ UNCHANGED << registry, llm_config, ctor, self, built, events,
                    deterministic, llmMemo, toolMemo, log, bx, fx >>

\* Lines 136-138 and 95-101: the intent-extraction call of the backend.
SearchInvoke ==
    /\ pc = "search"
    /\ LET s == chat_search_call(args.message, caller.history_chat,
                                 caller.history_search, args.generation_config,
                                 args.max_results)
           c == search_chat_call(s.message, s.history, s.generation_config)
           eff == _chat(self, c.message, c.history, c.system_prompt,
                        c.generation_config, c.stream)
       IN  /\ self' = eff.self
           /\ caller' = [caller EXCEPT !.history_search = eff.history]
           /\ trace' = Append(trace, eff.request)
           /\ \E out \in Answers(llmMemo, eff.request, LlmOutcomeSpace) :
                 /\ llmMemo' = Remember(llmMemo, eff.request, out)
                 /\ IF out.raised
                    THEN /\ pc' = "done"
                         /\ result' = Raised("BackendError", "search")
                         /\ loc' = loc
                    ELSE /\ pc' = "tool_call"
                         /\ result' = result
                         /\ loc' = [loc EXCEPT !.response = out.v]
    /\ UNCHANGED << registry, llm_config, ctor, built, events, args,
                    deterministic, toolMemo, log, bx, fx >>

\* Line 102: the search tool is called with the backend's reply.
ToolCall ==
    /\ pc = "tool_call"
    /\ LET request == tool_call(loc.response, args.max_results) IN
       /\ trace' = Append(trace, request)
       /\ \E out \in Answers(toolMemo, request, ToolOutcomeSpace) :
             /\ toolMemo' = Remember(toolMemo, request, out)
             /\ IF out.raised
                THEN /\ pc' = "done"
                     /\ result' = Raised("ToolError", "tool")
                     /\ loc' = loc
                ELSE /\ pc' = "format"
                     /\ result' = result
                     /\ loc' = [loc EXCEPT !.papers = out.v]
    /\ UNCHANGED << registry, llm_config, ctor, self, built, events, caller, args,
                    deterministic, llmMemo, log, bx, fx >>

\* Lines 139-140: the cards, then the message for the backend; an error of
\* either leaves chat.
FormatPapers ==
    /\ pc = "format"
    /\ LET paper_cards == _generate_paper_cards(loc.papers)
           messaeg_for_llm == _prepare_message_for_llm(args.message, loc.papers)
       IN  IF ~paper_cards.ok
           THEN /\ pc' = "done"
                /\ result' = Raised(paper_cards.err, "cards")
                /\ loc' = loc
           ELSE IF ~messaeg_for_llm.ok
           THEN /\ pc' = "done"
                /\ result' = Raised(messaeg_for_llm.err, "message")
                /\ loc' = [loc EXCEPT !.paper_cards = paper_cards.v]
           ELSE /\ pc' = "answer"
                /\ result' = result
                /\ loc' = [loc EXCEPT !.paper_cards = paper_cards.v,
                                      !.messaeg_for_llm = messaeg_for_llm.v]
    /\ UNCHANGED << registry, llm_config, ctor, self, built, events, caller, args,
                    trace, deterministic, llmMemo, toolMemo, log, bx, fx >>

\* Lines 141-148: the answer call of the backend, and the return.
AnswerInvoke ==
    /\ pc = "answer"
    /\ LET c == chat_answer_call(loc.messaeg_for_llm, caller.history_chat,
                                 caller.history_search, args.generation_config,
                                 args.stream)
           eff == _chat(self, c.message, c.history, c.system_prompt,
                        c.generation_config, c.stream)
       IN  /\ self' = eff.self
           /\ caller' = [caller EXCEPT !.history_chat = eff.history]
           /\ trace' = Append(trace, eff.request)
           /\ \E out \in Answers(llmMemo, eff.request, LlmOutcomeSpace) :
                 /\ llmMemo' = Remember(llmMemo, eff.request, out)
                 /\ pc' = "done"
                 /\ result' = IF out.raised THEN Raised("BackendError", "answer")
                              ELSE Returned(<< out.v, loc.paper_cards, loc.response >>)
    /\ UNCHANGED << registry, llm_config, ctor, built, events, args, loc,
                    deterministic, toolMemo, log, bx, fx >>

\* Control is back with the caller, who takes the result; the frame of the
\* call is gone.
ChatEnds ==
    /\ pc = "done"
    /\ pc' = "idle"
    /\ log' = IF deterministic
              THEN Append(log, [args |-> args, result |-> result, trace |-> trace])
              ELSE log
    /\ args' = NoArgs
    /\ caller' = NoCaller
    /\ loc' = NoLoc
    /\ trace' = << >>
    /\ result' = NoResult
    /\ UNCHANGED << registry, llm_config, ctor, self, built, events,
                    deterministic, llmMemo, toolMemo, bx, fx >>

Next ==
    \/ ParseConfig
    \/ SetupModelLookup
    \/ SetupModelConstruct
    \/ SetupTool
    \/ CallChat
    \/ SearchInvoke
    \/ ToolCall
    \/ FormatPapers
    \/ AnswerInvoke
    \/ ChatEnds

Spec == Init /\ [][Next]_vars

\* The same bot against collaborators that are functions of their inputs.
InitDeterministic ==
    /\ BotInit(TRUE, { {"openai", "hf"} }, { None })
    /\ bx = NoBx
    /\ fx = NoFx

SpecDeterministic == InitDeterministic /\ [][Next]_vars

(***************************************************************************)
(* _chat called on its own, with any system prompt: the bot is built and  *)
(* idle, and bx holds the call.                                            *)
(***************************************************************************)
BuiltBot == SetTool(SetLlm(NoAttributes, DefaultEngine, None, None))

DirectTurns == { << << "q1" >>, << "a1" >> >>, << << "q2" >>, << "a2" >> >> }

DirectChatCalls ==
    [stage : {"call"},
     message : Messages \cup { << >> },
     history : SeqsUpTo(DirectTurns, MaxHist),
     system_prompt : { None, Some(<< >>), Some(ARXIV_SEARCH_PROMPT), Some(ARXIV_SYSTEM_PROMPT) },
     generation_config : GenerationConfigs,
     stream : BOOLEAN,
     request : { [op |-> "", messages |-> << >>, generation_config |-> None] },
     history_after : { << >> },
     outcome : { Outcome(FALSE, << >>) }]

BuiltIdle ==
    /\ pc = "idle"
    /\ registry = {"openai", "hf"}
    /\ llm_config = None
    /\ ctor = NoCtor
    /\ self = BuiltBot
    /\ built = BuiltBot
    /\ events = << "LLM_REGISTRY[]", "llm_cls()", "TOOL_REGISTRY[]", "tool_cls()" >>
    /\ caller = NoCaller
    /\ args = NoArgs
    /\ loc = NoLoc
    /\ trace = << >>
    /\ result = NoResult
    /\ deterministic = FALSE
    /\ llmMemo = {}
    /\ toolMemo = {}
    /\ log = << >>

InitDirectChat ==
    /\ BuiltIdle
    /\ bx \in DirectChatCalls
    /\ fx = NoFx

\* Lines 105-125: the whole of _chat, the backend's reply or error included.
DirectChat ==
    /\ bx.stage = "call"
    /\ LET eff == _chat(self, bx.message, bx.history, bx.system_prompt,
                        bx.generation_config, bx.stream)
       IN  /\ self' = eff.self
           /\ \E out \in LlmOutcomeSpace :
                 bx' = [bx EXCEPT !.stage = "back", !.request = eff.request,
                                  !.history_after = eff.history, !.outcome = out]
    /\ UNCHANGED << pc, registry, llm_config, ctor, built, events, caller, args, loc,
                    trace, result, deterministic, llmMemo, toolMemo, log, fx >>

NextDirectChat == DirectChat

SpecDirectChat == InitDirectChat /\ [][NextDirectChat]_vars

(***************************************************************************)
(* The two formatters applied to what the tool serialized from a sequence *)
(* P of records, as lines 139-140 apply them.                              *)
(***************************************************************************)
PaperSeqs == SeqsUpTo({ PaperPool[k] : k \in 1..Len(PaperPool) }, MaxPapers)

FormatCalls ==
    { [stage |-> "call", P |-> P, message |-> m, papers |-> SerializePapers(P),
       paper_cards |-> Ok(<< >>), messaeg_for_llm |-> Ok(<< >>)]
      : P \in PaperSeqs, m \in Messages \cup { << >> } }

InitFormat ==
    /\ BuiltIdle
    /\ bx = NoBx
    /\ fx \in FormatCalls

\* Line 139.
DirectCards ==
    /\ fx.stage = "call"
    /\ fx' = [fx EXCEPT !.stage = "cards",
                        !.paper_cards = _generate_paper_cards(fx.papers)]
    /\ UNCHANGED << botVars, bx >>

\* Line 140.
DirectMessage ==
    /\ fx.stage = "cards"
    /\ fx' = [fx EXCEPT !.stage = "done",
                        !.messaeg_for_llm = _prepare_message_for_llm(fx.message, fx.papers)]
    /\ UNCHANGED << botVars, bx >>

NextFormat == DirectCards \/ DirectMessage

SpecFormat == InitFormat /\ [][NextFormat]_vars

(***************************************************************************)
(* Reading the outputs back.                                               *)
(***************************************************************************)
\* The place of the i-th occurrence of atom a in text (0 when there is none).
NthPlace(text, a, i) ==
    LET at == { k \in 1..Len(text) :
                  text[k] = a /\ Cardinality({ j \in 1..k : text[j] = a }) = i }
    IN  IF at = {} THEN 0 ELSE CHOOSE k \in at : TRUE

Occurrences(text, a) == Cardinality({ k \in 1..Len(text) : text[k] = a })

\* text holds sub at place k.
HasAt(text, k, sub) ==
    /\ k >= 1
    /\ k + Len(sub) - 1 <= Len(text)
    /\ SubSeq(text, k, k + Len(sub) - 1) = sub

Numerals == << "1", "2", "3", "4", "5", "6", "7", "8", "9" >>

\* The authors of a record joined by ", ".
CommaJoined(authors) ==
    IF Len(authors) = 0 THEN << >>
    ELSE [k \in 1..(2 * Len(authors) - 1) |->
             IF k % 2 = 1 THEN authors[(k + 1) \div 2] ELSE ", "]

CardHeader == "\n### ["
CardExpected(i, p) ==
    << CardHeader, Numerals[i], ". ", p.title, "](", p.pdf_url, ")\n\n**Authors:** " >>
    \o CommaJoined(p.authors) \o << "\n\n**Abstract:** ", p.summary, "\n\n" >>

GroundHeader == "Title: "
GroundExpected(p) ==
    << GroundHeader, p.title, "\n", "Authors: " >> \o CommaJoined(p.authors)
    \o << "\n", "Abstract: ", p.summary, "\n\n" >>

\* markup holds exactly Len(P) cards, the i-th numbered i and carrying P[i],
\* one straight after the other.
CardsCarry(markup, P) ==
    /\ Occurrences(markup, CardHeader) = Len(P)
    /\ \A i \in 1..Len(P) :
          LET at == NthPlace(markup, CardHeader, i) IN
          /\ HasAt(markup, at, CardExpected(i, P[i]))
          /\ i < Len(P) =>
                NthPlace(markup, CardHeader, i + 1) = at + Len(CardExpected(i, P[i]))

GroundingCarries(text, P) ==
    /\ Occurrences(text, GroundHeader) = Len(P)
    /\ \A i \in 1..Len(P) :
          LET at == NthPlace(text, GroundHeader, i) IN
          /\ HasAt(text, at, GroundExpected(P[i]))
          /\ i < Len(P) =>
                NthPlace(text, GroundHeader, i + 1) = at + Len(GroundExpected(P[i]))

(***************************************************************************)
(* The claims.                                                             *)
(***************************************************************************)

\* C1: for every non-empty sequence P of records the tool serialized, the
\* cards markup holds exactly Len(P) cards, card i numbered i and carrying the
\* title, pdf_url, comma-joined authors and summary of P[i], and the message
\* for the backend holds exactly Len(P) title/authors/summary blocks, block i
\* carrying the fields of P[i]: the order of P is kept, nothing is sorted,
\* filtered, duplicated or dropped.
C1_OrderPreserved ==
    (fx.stage = "done" /\ Len(fx.P) > 0) =>
        /\ fx.paper_cards.ok
        /\ CardsCarry(fx.paper_cards.v, fx.P)
        /\ fx.messaeg_for_llm.ok
        /\ GroundingCarries(fx.messaeg_for_llm.v, fx.P)

\* Both formatters ran on two records with the same title, in an order a
\* sort by title or a deduplication would change.
C1_Witness ==
    /\ fx.stage = "done"
    /\ Len(fx.P) = 2
    /\ fx.P[1] = PaperPool[4]
    /\ fx.P[2] = PaperPool[1]
    /\ fx.paper_cards.ok
    /\ fx.messaeg_for_llm.ok

\* What the final call of the backend got as its last message.
FinalUserMessage == trace[3].messages[Len(trace[3].messages)]

\* The answer call has been made in the current chat call.
AnswerCallMade == pc = "done" /\ Len(trace) = 3

\* The current chat call returned its triple.
ChatReturned == pc = "done" /\ result.status = "returned"

\* An absent or empty value: None, the empty text, an empty list object.
EmptyValue(papers) == papers \in { PyNone, PyText(<< >>), PyList(<< >>) }

\* The serialization of a list of no records.
SerializedEmptyList == SerializePapers(<< >>)

\* text is the grounded-answer template filled with some content and message.
IsGroundedTemplate(text, message) ==
    LET head == ARXIV_CHAT_TEMPLATE(<< >>, << >>)[1]
        tail == << "\n\nQuestion:\n\n" >> \o message \o << "\n" >>
    IN  /\ Len(text) >= 1 + Len(tail)
        /\ text[1] = head
        /\ HasAt(text, Len(text) - Len(tail) + 1, tail)

\* C2 as stated: whenever the tool returns an empty result (an absent or
\* empty value, or a list of no records in its serialized form), the cards
\* markup is the empty string and the final user message is the original
\* message; whenever the result is not empty, the final user message is the
\* grounded-answer template.
C2_Original ==
    ChatReturned =>
        IF EmptyValue(loc.papers) \/ loc.papers = SerializedEmptyList
        THEN /\ result.value[2] = << >>
             /\ FinalUserMessage = Msg("user", args.message)
        ELSE IsGroundedTemplate(FinalUserMessage.content, args.message)

\* C2 as amended: whenever the tool returns an absent or empty value (None,
\* the empty text, an empty list object), the cards markup is the empty string
\* and the final user message is the original message unmodified; whenever it
\* returns anything else and the answer call is made, the serialized empty
\* list "[]" included, the markup is not empty (for "[]" it is the outer
\* container around no card) and the final user message is the grounded-answer
\* template filled with the grounding text and the original message.
C2_EmptyValueOnly ==
    /\ AnswerCallMade =>
          /\ FinalUserMessage.role = "user"
          /\ IF EmptyValue(loc.papers)
             THEN FinalUserMessage.content = args.message
             ELSE /\ IsGroundedTemplate(FinalUserMessage.content, args.message)
                  /\ FinalUserMessage.content # args.message
          /\ loc.papers = SerializedEmptyList =>
                FinalUserMessage.content = ARXIV_CHAT_TEMPLATE(<< >>, args.message)
    /\ ChatReturned =>
          /\ EmptyValue(loc.papers) <=> result.value[2] = << >>
          /\ loc.papers = SerializedEmptyList =>
                result.value[2] = PAPER_CARD_MARKDOWN(<< >>)

\* The tool returned None and the answer call was made.
C2_Witness ==
    /\ ChatReturned
    /\ loc.papers = PyNone
    /\ result.value[2] = << >>
    /\ FinalUserMessage.content = args.message

\* C3: for every history H, message m and system prompt s, the messages _chat
\* hands to the backend number 2*Len(H)+1 with no system message when s is
\* None or empty, and 2*Len(H)+2 with the system message first when s is not
\* empty; after it the roles alternate user, assistant, the k-th pair carries
\* H[k]'s query then response, and the last message is a user message with
\* content m.
C3_MessageSequence ==
    bx.stage = "back" =>
        LET msgs == bx.request.messages
            H == bx.history
            hasSystem == (bx.system_prompt # None) /\ (bx.system_prompt.v # << >>)
            off == IF hasSystem THEN 1 ELSE 0
        IN  /\ Len(msgs) = 2 * Len(H) + 1 + off
            /\ hasSystem => msgs[1] = [role |-> "system", content |-> bx.system_prompt.v]
            /\ \A k \in (off + 1)..Len(msgs) : msgs[k].role # "system"
            /\ \A k \in 1..Len(H) :
                  /\ msgs[off + 2 * k - 1] = [role |-> "user", content |-> H[k][1]]
                  /\ msgs[off + 2 * k] = [role |-> "assistant", content |-> H[k][2]]
            /\ msgs[Len(msgs)] = [role |-> "user", content |-> bx.message]

\* _chat was called with two prior turns and the empty system prompt.
C3_Witness ==
    /\ bx.stage = "back"
    /\ Len(bx.history) = 2
    /\ bx.system_prompt = Some(<< >>)
    /\ Len(bx.request.messages) = 5

\* C4: in every chat call the text the intent-extraction call returned goes
\* unchanged, with the caller's max_results, to the tool's call operation, and
\* is the third element of chat's result, whatever the text is.
C4_IntentVerbatim ==
    /\ Len(trace) >= 2 =>
          trace[2] = [op |-> "call", text |-> loc.response,
                      max_results |-> args.max_results]
    /\ ChatReturned => result.value[3] = loc.response

\* chat returned after the backend gave text that is no JSON, with a
\* max_results other than the default.
C4_Witness ==
    /\ ChatReturned
    /\ loc.response = << "free text, not JSON" >>
    /\ args.max_results # DefaultMaxResults
    /\ trace[2].text = << "free text, not JSON" >>

\* The engine identifier the constructor's argument resolves to.
ConfiguredEngine ==
    IF llm_config = None THEN "openai"
    ELSE IF "engine" \in DOMAIN llm_config.v THEN llm_config.v["engine"]
    ELSE "openai"

\* C5: when the resolved engine is no key of the model registry, construction
\* fails with a lookup error before any backend is constructed and before the
\* tool is looked up or constructed; no bot with a model or tool handle
\* results.
C5_UnknownEngineFails ==
    ConfiguredEngine \notin registry =>
        /\ pc \in { "new", "setup_model", "init_raised" }
        /\ pc = "init_raised" <=> events = << "LLM_REGISTRY[]", "KeyError" >>
        /\ pc # "init_raised" => events = << >>
        /\ DOMAIN self = {}

\* Construction failed on the default engine, which the registry lacks.
C5_Witness ==
    /\ pc = "init_raised"
    /\ llm_config = None
    /\ "openai" \notin registry
    /\ events = << "LLM_REGISTRY[]", "KeyError" >>

\* C6: two chat calls on the same bot with identical arguments, against a
\* backend and a tool that are functions of their inputs, end alike (the same
\* triple, or the same error) and send the same requests to the collaborators
\* in the same order: the first call leaves nothing behind that the second
\* one sees.
C6_RepeatedCallAlike ==
    deterministic =>
        \A i, j \in 1..Len(log) :
            log[i].args = log[j].args =>
                /\ log[i].trace = log[j].trace
                /\ log[i].result = log[j].result

\* The same call was made twice and returned a triple both times, with
\* prior turns in both histories.
C6_Witness ==
    /\ deterministic
    /\ Len(log) = 2
    /\ log[1].args = log[2].args
    /\ Len(log[1].args.history_chat) > 0
    /\ Len(log[1].args.history_search) > 0
    /\ log[1].result.status = "returned"
    /\ log[2].result.status = "returned"
    /\ Len(log[2].trace) = 3

\* The bot is constructed.
Constructed == pc \in { "idle", "search", "tool_call", "format", "answer", "done" }
InChat == pc \in { "search", "tool_call", "format", "answer", "done" }

\* C7: after construction and across any sequence of chat calls, successful or
\* failing, the bot's model handle and tool handle are the ones construction
\* made, the bot has no attribute besides the two (it stores nothing of a
\* conversation), and the caller's history_chat and history_search are as they
\* were at the call.
C7_HandlesAndHistoriesKept ==
    Constructed =>
        /\ DOMAIN self = { "llm", "tool" }
        /\ self = built
        /\ InChat =>
              /\ caller.history_chat = args.history_chat
              /\ caller.history_search = args.history_search

\* A chat call with prior turns in both histories failed at the answer call.
C7_Witness ==
    /\ pc = "done"
    /\ result.status = "raised"
    /\ result.stage = "answer"
    /\ Len(args.history_chat) > 0
    /\ Len(args.history_search) > 0
    /\ self = built

\* C8: every chat call that returns made exactly three collaborator calls in
\* this order: one invoke of the backend (whatever the stream flag), one call
\* of the tool, one call of the backend that is invoke_stream when stream is
\* true and invoke when it is false; no chat call makes more than three, and
\* the stages only move forward.
C8_ThreeCallsInOrder ==
    /\ Len(trace) <= 3
    /\ Len(trace) >= 1 => trace[1].op = "invoke"
    /\ Len(trace) >= 2 => trace[2].op = "call"
    /\ Len(trace) >= 3 =>
          trace[3].op = (IF args.stream THEN "invoke_stream" ELSE "invoke")
    /\ (pc = "done" /\ result.status = "returned") => Len(trace) = 3
    /\ pc = "search" => Len(trace) = 0
    /\ pc = "tool_call" => Len(trace) = 1
    /\ pc \in { "format", "answer" } => Len(trace) = 2

\* chat returned with stream false.
C8_Witness ==
    /\ pc = "done"
    /\ result.status = "returned"
    /\ ~args.stream
    /\ Len(trace) = 3
    /\ trace[3].op = "invoke"

\* The (query, response) turns a message sequence replays: what lies between
\* the system message and the last message.
TurnsOf(msgs) ==
    [k \in 1..((Len(msgs) - 2) \div 2) |->
        << msgs[2 * k].content, msgs[2 * k + 1].content >>]

\* No turn of history has its query or its response in msgs.
NoTurnIn(history, msgs) ==
    \A k \in 1..Len(history) : \A n \in 1..Len(msgs) :
        /\ msgs[n].content # history[k][1]
        /\ msgs[n].content # history[k][2]

\* C9: in every chat call the intent-extraction call is built from the
\* search-intent system prompt, history_search only and the original message,
\* and the answer call from the paper-recommendation system prompt,
\* history_chat only and the message prepared for the backend; no turn of
\* history_chat is in the first, no turn of history_search in the second, and
\* both get the caller's generation_config.
C9_DisjointContext ==
    /\ Len(trace) >= 1 =>
          LET msgs == trace[1].messages IN
          /\ msgs[1] = [role |-> "system", content |-> ARXIV_SEARCH_PROMPT]
          /\ TurnsOf(msgs) = args.history_search
          /\ msgs[Len(msgs)] = [role |-> "user", content |-> args.message]
          /\ NoTurnIn(args.history_chat, msgs)
          /\ trace[1].generation_config = args.generation_config
    /\ Len(trace) >= 3 =>
          LET msgs == trace[3].messages IN
          /\ msgs[1] = [role |-> "system", content |-> ARXIV_SYSTEM_PROMPT]
          /\ TurnsOf(msgs) = args.history_chat
          /\ msgs[Len(msgs)] = [role |-> "user", content |-> loc.messaeg_for_llm]
          /\ NoTurnIn(args.history_search, msgs)
          /\ trace[3].generation_config = args.generation_config

\* Both backend calls were made with prior turns in both histories and a
\* generation_config.
C9_Witness ==
    /\ Len(trace) = 3
    /\ Len(args.history_chat) > 0
    /\ Len(args.history_search) > 0
    /\ args.generation_config # None
    /\ Len(trace[1].messages) = 2 * Len(args.history_search) + 2

\* Tool results with a record that lacks one of the four fields, or that
\* cannot be deserialized.
BrokenReturns ==
    { PyText(<< "[", "{" >>) }
    \cup { PyText(SerValue(PArr(<< PaperObj(PaperPool[1]),
                                   WithoutKey(PaperObj(PaperPool[2]), PaperFields[k]) >>)))
           : k \in 1..Len(PaperFields) }

\* C10: an error during chat ends the call at that stage, with no retry and no
\* fallback: when the intent-extraction call fails the tool is not called;
\* when the tool fails, or a returned record lacks title, authors, summary or
\* pdf_url, or the result cannot be deserialized, the answer call is not made
\* and chat returns nothing; a failed call has no partial result, and no stage
\* calls its collaborator twice.
C10_ErrorsEndTheCall ==
    /\ (pc = "done" /\ result.status = "raised") =>
          /\ result.value = << >>
          /\ result.stage = "search" => (Len(trace) = 1 /\ trace[1].op = "invoke")
          /\ result.stage \in { "tool", "cards", "message" } =>
                (Len(trace) = 2 /\ trace[2].op = "call")
          /\ result.stage = "answer" => Len(trace) = 3
    /\ (InChat /\ loc.papers \in BrokenReturns) =>
          /\ pc \in { "format", "done" }
          /\ Len(trace) = 2
          /\ pc = "done" => (result.status = "raised" /\ result.stage = "cards")
    /\ Cardinality({ k \in 1..Len(trace) : trace[k].op = "call" }) <= 1
    /\ Cardinality({ k \in 1..Len(trace) : trace[k].op # "call" }) <= 2

\* chat raised a KeyError from the cards: a record without its pdf_url.
C10_Witness ==
    /\ pc = "done"
    /\ result.status = "raised"
    /\ result.stage = "cards"
    /\ result.err = "KeyError"
    /\ loc.papers = PyText(SerValue(PArr(<< PaperObj(PaperPool[1]),
                                            WithoutKey(PaperObj(PaperPool[2]), "pdf_url") >>)))
    /\ Len(trace) = 2

=============================================================================
